---- MODULE Spec2Model ----
(***************************************************************************)
(* Model of the starlit SAT solver's clause database reduction             *)
(* (starlit/src/reduce.rs), of its literal encoding (starlit/src/lit.rs)   *)
(* and of the formula loader of its command line (starlit-cli/src/main.rs).*)
(*                                                                         *)
(* The specifications share the solver state (trail, assignment, clause    *)
(* database):                                                              *)
(*   Spec      the search side: trail assignments, backtracks, clause      *)
(*             additions, uses of a clause and reduce(), which is split at *)
(*             the points of its body (protect, scan loop, select/delete,  *)
(*             unprotect); nothing else runs while a reduction is open.    *)
(*   LoadSpec  main(): the clause reading loop, the unit loop and solve(). *)
(*   ReduceSpec  reduce() called again and again on a drawn database.      *)
(*   LitSpec   the functions of lit.rs on arguments at the range edges.    *)
(*   ScoreSpec the score of deletion candidates, built and compared.       *)
(***************************************************************************)
EXTENDS Integers, Sequences, FiniteSets

(***************************************************************************)
(* Bounds of the model.                                                    *)
(***************************************************************************)
NumVars == 2
MaxClauses == 4
MaxLen == 3
MaxUsed == 1
MaxInput == 3

(***************************************************************************)
(* Literals and variables (lit.rs).  A Var is its index, a Lit its code.   *)
(***************************************************************************)
PANIC == -1

MAX_INDEX == 1073741823

MAX_DIMACS == MAX_INDEX + 1

Abs(n) == IF n < 0 THEN -n ELSE n

Var_from_index_strict(index) == IF index < MAX_INDEX THEN index ELSE PANIC

Var_from_index(index) == IF index <= MAX_INDEX THEN index ELSE PANIC

Var_from_dimacs(number) == IF number > 0 THEN Var_from_index(number - 1) ELSE PANIC

Var_dimacs(var) == var + 1

\* LitIdx is u32: the operators | and & on it, bit by bit
RECURSIVE BitOr(_, _)
BitOr(a, b) ==
    IF a = 0 THEN b
    ELSE IF b = 0 THEN a
    ELSE (IF a % 2 = 1 \/ b % 2 = 1 THEN 1 ELSE 0) + 2 * BitOr(a \div 2, b \div 2)

RECURSIVE BitAnd(_, _)
BitAnd(a, b) ==
    IF a = 0 \/ b = 0 THEN 0
    ELSE (IF a % 2 = 1 /\ b % 2 = 1 THEN 1 ELSE 0) + 2 * BitAnd(a \div 2, b \div 2)

\* x << 1 and x >> 1 on a LitIdx; the shift to the left loses no bit of an
\* index below 2^31, and a value of 2^31 or more is no value of the model
shl1(x) == x * 2

shr1(x) == x \div 2

\* positive as LitIdx
bool_as_LitIdx(b) == IF b THEN 1 ELSE 0

Lit_from_var_unshifted(var, positive) == BitOr(var, bool_as_LitIdx(positive))

Lit_from_var(var, positive) == BitOr(shl1(var), bool_as_LitIdx(positive))

\* Lit::from_index: convenience for Lit::from_var(Var::from_index(index), positive)
Lit_from_index(index, positive) ==
    LET v == Var_from_index(index)
    IN  IF v = PANIC THEN PANIC ELSE Lit_from_var(v, positive)

\* A usize argument wider than the model's integers: high * 2^31 + low
usize(high, low) == [high |-> high, low |-> low]

usize_le(a, b) == a.high < b.high \/ (a.high = b.high /\ a.low <= b.low)

\* Lit::from_code: the code is cast to LitIdx once it passed the assertion,
\* where its high part is zero
Lit_from_code(code) ==
    IF usize_le(code, usize(0, 2 * MAX_INDEX + 1)) THEN code.low ELSE PANIC

Lit_from_dimacs(number) ==
    LET v == Var_from_dimacs(Abs(number))
    IN  IF v = PANIC THEN PANIC ELSE Lit_from_var(v, number > 0)

Lit_code(lit) == lit

Lit_var(lit) == shr1(lit)

Var_index(var) == var

Lit_index(lit) == Var_index(Lit_var(lit))

Lit_is_positive(lit) == BitAnd(lit, 1) # 0

Lit_is_negative(lit) == BitAnd(lit, 1) = 0

Lit_dimacs_unsigned(lit) == Var_dimacs(Lit_var(lit))

Lit_dimacs(lit) == Var_dimacs(Lit_var(lit)) * (IF Lit_is_positive(lit) THEN 1 ELSE -1)

Vars == 0 .. (NumVars - 1)

Lits == 0 .. (2 * NumVars - 1)

VARIABLES
    trail,                \* Trail: the sequence of steps, in assignment order
    assigned,             \* trail.assigned: the partial assignment, per variable
    long,                 \* clauses.long: live handle -> length and clause data
    binary,               \* clauses.binary: number of binary clauses held
    next_ref,             \* the handle the next long clause gets
    fault,                \* a caller-contract violation that was raised, or "none"
    rpc,                  \* position inside reduce(), "idle" outside of it
    deletion_candidates,  \* reduce(): the (score, clause) pairs collected
    higher,               \* reduce(): the slice select_nth_unstable returned
    pc,                   \* main(): position of the loader
    formula,              \* main(): the clauses of the input file, as DIMACS numbers
    input,                \* main(): the clauses the parser has yet to yield
    units,                \* main(): the unit literals buffered / yet to visit
    output,               \* main(): what was printed on stdout
    calls,                \* main(): the calls made on the solver, in order
    probe                 \* a call of a pure function: its name, arguments and result

vars == <<trail, assigned, long, binary, next_ref, fault, rpc,
          deletion_candidates, higher, pc, formula, input, units, output, calls,
          probe>>

reduce_vars == <<rpc, deletion_candidates, higher>>

load_vars == <<pc, formula, input, units, output, calls>>

solver_vars == <<trail, assigned, long, binary, next_ref, fault>>

\* no pure function has been called
NoProbe == [fn |-> "none", args |-> <<>>, result |-> 0, built |-> <<>>]

\* a call of fn on args that returned result (PANIC when it panicked); built
\* names the constructor call that made the receiver of a method call
Probe(fn, args, result, built) ==
    [fn |-> fn, args |-> args, result |-> result, built |-> built]

(***************************************************************************)
(* Trail and partial assignment (trail.rs is not part of the sources at    *)
(* hand; modelled from its contract).                                      *)
(***************************************************************************)
Decision == [kind |-> "Decision", arg |-> 0]

Unit == [kind |-> "Unit", arg |-> 0]

Binary(other) == [kind |-> "Binary", arg |-> other]

Long(clause) == [kind |-> "Long", arg |-> clause]

Step(lit, level, reason) ==
    [assigned_lit |-> lit, decision_level |-> level, reason |-> reason]

is_true(a, lit) == a[Lit_var(lit)] = (IF Lit_is_positive(lit) THEN "true" ELSE "false")

is_false(a, lit) == a[Lit_var(lit)] = (IF Lit_is_positive(lit) THEN "false" ELSE "true")

is_unassigned(a, lit) == a[Lit_var(lit)] = "unassigned"

\* trail.assign(step): the new trail, assignment and fault
assign_trail(t, step) == Append(t, step)

assign_assigned(a, step) ==
    [a EXCEPT ![Lit_var(step.assigned_lit)] =
        IF Lit_is_positive(step.assigned_lit) THEN "true" ELSE "false"]

assign_fault(a, f, step) ==
    IF is_unassigned(a, step.assigned_lit) THEN f ELSE "assign_assigned"

current_level(t) == IF t = <<>> THEN 0 ELSE t[Len(t)].decision_level

RECURSIVE backtrack_trail(_, _)
backtrack_trail(t, level) ==
    IF t = <<>> \/ t[Len(t)].decision_level <= level
    THEN t
    ELSE backtrack_trail(SubSeq(t, 1, Len(t) - 1), level)

backtrack_assigned(a, t, level) ==
    [v \in DOMAIN a |->
        IF \E i \in 1 .. Len(t) :
              /\ Lit_var(t[i].assigned_lit) = v
              /\ t[i].decision_level > level
        THEN "unassigned"
        ELSE a[v]]

\* trail.steps() filtered on Reason::Long: the handles the steps refer to
LongReasons(t) == {t[i].reason.arg : i \in {j \in 1 .. Len(t) : t[j].reason.kind = "Long"}}

(***************************************************************************)
(* Clause database (clauses.rs, clauses/long.rs are not part of the        *)
(* sources at hand; modelled from their contract).                         *)
(***************************************************************************)
new_input_clause(len) ==
    [len |-> len, glue |-> len, used |-> 0, protected |-> FALSE, redundant |-> FALSE]

new_learned_clause(len, glue) ==
    [len |-> len, glue |-> glue, used |-> 0, protected |-> FALSE, redundant |-> TRUE]

\* add_clause(data, lits): long clauses get the next handle, binary clauses
\* are stored apart, anything shorter is not stored
add_clause_long(l, ref, data) ==
    IF data.len >= 3 THEN [c \in DOMAIN l \cup {ref} |-> IF c = ref THEN data ELSE l[c]] ELSE l

add_clause_binary(b, data) == IF data.len = 2 THEN b + 1 ELSE b

add_clause_next_ref(ref, data) == IF data.len >= 3 THEN ref + 1 ELSE ref

\* delete_clause(handle): the handle is no longer live
delete_clauses(l, dead) == [c \in DOMAIN l \ dead |-> l[c]]

delete_fault(l, f, dead) ==
    IF \E c \in dead : c \notin DOMAIN l THEN "stale_handle"
    ELSE IF \E c \in dead : l[c].protected THEN "delete_protected"
    ELSE f

\* next_clause(cursor): the live handle after the cursor, 0 when there is none
next_clause(l, cursor) ==
    LET rest == {c \in DOMAIN l : c > cursor}
    IN  IF rest = {} THEN 0 ELSE CHOOSE c \in rest : \A d \in rest : c <= d

(***************************************************************************)
(* The reduction score (reduce.rs, struct Score): a u32 bit field holding, *)
(* from the least significant bit, len (24 bits, clamped), glue (6 bits)   *)
(* and inv_used (2 bits).  The value is kept as its fields; score_bits is  *)
(* the u32 they make up, as its bits 24..31 and its bits 0..23, which is   *)
(* what derive(Ord) compares.  The setters of the Bitfield derive (not     *)
(* part of the sources at hand) reduce a value to the width of its field:  *)
(* !data.used(), a usize with all its high bits set, is stored in two bits.*)
(***************************************************************************)
LEN_BITS_MAX == 16777215

GLUE_FIELD_SIZE == 64

INV_USED_FIELD_SIZE == 4

\* the values of the used counter of a long clause: the two bits that
\* inv_used mirrors
USED_MAX == INV_USED_FIELD_SIZE - 1

\* variant of inv_used_of: the counter as it is, not inverted
inv_used_plain(used) == used % INV_USED_FIELD_SIZE

\* !used, as stored in the two bits of inv_used
inv_used_of(used) == (INV_USED_FIELD_SIZE - 1) - (used % INV_USED_FIELD_SIZE)

set_len_of(len) == IF len > LEN_BITS_MAX THEN LEN_BITS_MAX ELSE len

make_score(data) ==
    [inv_used |-> inv_used_of(data.used),
     glue |-> data.glue % GLUE_FIELD_SIZE,
     len |-> set_len_of(data.len)]

\* the u32 of a Score: inv_used << 30 | glue << 24 | len, as <<bits 24..31,
\* bits 0..23>>; a field wider than its bits runs into the field above it
score_bits(score) ==
    LET len_size == LEN_BITS_MAX + 1
        above == score.inv_used * GLUE_FIELD_SIZE + score.glue + (score.len \div len_size)
    IN  <<above % (INV_USED_FIELD_SIZE * GLUE_FIELD_SIZE), score.len % len_size>>

\* < on u32, bits 24..31 first
u32_less(a, b) == a[1] < b[1] \/ (a[1] = b[1] /\ a[2] < b[2])

\* derive(Ord) on Score(u32)
score_less(a, b) == u32_less(score_bits(a), score_bits(b))

\* the order of the (Score, clause) pairs select_nth_unstable sorts by
candidate_less(a, b) ==
    \/ score_less(a.score, b.score)
    \/ score_bits(a.score) = score_bits(b.score) /\ a.clause < b.clause

(***************************************************************************)
(* reduce() (reduce.rs).                                                   *)
(***************************************************************************)
\* variants of protect_clauses: one that marks nothing, one that only ever sets
protect_clauses_none(l, t, protected) == l

protect_clauses_sets(l, t, protected) ==
    [c \in DOMAIN l |->
        IF c \in {t[i].reason.arg : i \in {j \in 1 .. Len(t) : t[j].reason.kind = "Long"}}
        THEN [l[c] EXCEPT !.protected = TRUE]
        ELSE l[c]]

\* protect_clauses(protected): sets the flag of every Reason::Long on the trail
protect_clauses(l, t, protected) ==
    [c \in DOMAIN l |->
        IF c \in LongReasons(t) THEN [l[c] EXCEPT !.protected = protected] ELSE l[c]]

protect_fault(l, t, f) ==
    IF \E c \in LongReasons(t) : c \notin DOMAIN l THEN "stale_handle" ELSE f

\* the three `continue`s ahead of the used counter: protected, input and core clauses
CORE_GLUE == 2

MEDIUM_GLUE == 5

\* variants of scan_skips, each without one of the three `continue`s
scan_skips_no_protected(data) == ~data.redundant \/ data.glue <= CORE_GLUE

scan_skips_no_core(data) == data.protected \/ ~data.redundant

scan_skips_no_input(data) == data.protected \/ data.glue <= CORE_GLUE

scan_skips(data) == data.protected \/ ~data.redundant \/ data.glue <= CORE_GLUE

\* variant of scan_used: decrements without looking at the counter
scan_used_wrapping(data) == data.used - 1

\* the used counter is decremented when it is positive
scan_used(data) == IF data.used > 0 THEN data.used - 1 ELSE data.used

\* variant of scan_keeps: no medium tier
scan_keeps_never(data) == FALSE

\* the `continue` of the medium tier: used since the last reduction, glue <= 5
scan_keeps(data) == data.used > 0 /\ data.glue <= MEDIUM_GLUE

\* variant of scan_data: the counter is decremented ahead of the `continue`s
scan_data_all(data) == [data EXCEPT !.used = scan_used(data)]

\* the clause data after one iteration of the scan loop
scan_data(data) ==
    IF scan_skips(data) THEN data ELSE [data EXCEPT !.used = scan_used(data)]

\* whether the iteration pushes the clause on deletion_candidates
scan_pushes(data) == ~scan_skips(data) /\ ~scan_keeps(data)

\* variant of select_higher: the slice before the index-th smallest
select_lower(cands, index) ==
    {e \in cands : Cardinality({f \in cands : candidate_less(f, e)}) < index}

\* select_nth_unstable(index): the elements after the index-th smallest
select_higher(cands, index) ==
    {e \in cands : Cardinality({f \in cands : candidate_less(f, e)}) > index}

\* the while loop over next_clause: the database and the candidates after it
RECURSIVE scan_loop(_, _, _)
scan_loop(l, clause_iter, cands) ==
    LET clause == next_clause(l, clause_iter)
    IN  IF clause = 0
        THEN [long |-> l, deletion_candidates |-> cands]
        ELSE scan_loop([l EXCEPT ![clause] = scan_data(l[clause])],
                       clause,
                       IF scan_pushes(l[clause])
                       THEN Append(cands, [score |-> make_score(scan_data(l[clause])),
                                           clause |-> clause])
                       ELSE cands)

CandidateSet == {deletion_candidates[i] : i \in 1 .. Len(deletion_candidates)}

Running == rpc \in {"idle", "returned"}

\* reduce(), lines 29-69: protect_clauses(true) and the scan
reduce_scan ==
    /\ Running
    /\ LET scanned == scan_loop(protect_clauses(long, trail, TRUE), 0, <<>>)
       IN  /\ long' = scanned.long
           /\ deletion_candidates' = scanned.deletion_candidates
    /\ fault' = protect_fault(long, trail, fault)
    /\ higher' = {}
    /\ rpc' = "select"
    /\ UNCHANGED <<trail, assigned, binary, next_ref, load_vars, probe>>

\* reduce(), lines 71-80: select_nth_unstable and the deletions
reduce_select ==
    /\ rpc = "select"
    /\ LET candidate_count == Len(deletion_candidates)
           sel == IF candidate_count = 0
                  THEN {}
                  ELSE select_higher(CandidateSet, candidate_count \div 2)
           dead == {e.clause : e \in sel}
       IN  /\ higher' = sel
           /\ long' = delete_clauses(long, dead)
           /\ fault' = delete_fault(long, fault, dead)
    /\ rpc' = "unprotect"
    /\ UNCHANGED <<trail, assigned, binary, next_ref, deletion_candidates, load_vars, probe>>

\* reduce(), line 82: protect_clauses(false) and the return
reduce_end ==
    /\ rpc = "unprotect"
    /\ long' = protect_clauses(long, trail, FALSE)
    /\ fault' = protect_fault(long, trail, fault)
    /\ deletion_candidates' = <<>>
    /\ higher' = {}
    /\ rpc' = "returned"
    /\ UNCHANGED <<trail, assigned, binary, next_ref, load_vars, probe>>

(***************************************************************************)
(* The search around reduce(): what it does to the trail and the database. *)
(***************************************************************************)
\* the glue a learned clause is given: the values on either side of the two
\* tier boundaries
GlueValues == {CORE_GLUE, CORE_GLUE + 1, MEDIUM_GLUE, MEDIUM_GLUE + 1}

AddLearned ==
    /\ Running
    /\ next_ref <= MaxClauses
    /\ \E len \in 3 .. MaxLen, glue \in GlueValues :
          long' = add_clause_long(long, next_ref, new_learned_clause(len, glue))
    /\ next_ref' = next_ref + 1
    /\ rpc' = "idle"
    /\ UNCHANGED <<trail, assigned, binary, fault,
                   deletion_candidates, higher, load_vars, probe>>

\* input clauses are all added before the search learns its first clause
AddInput ==
    /\ Running
    /\ next_ref <= MaxClauses
    /\ \A c \in DOMAIN long : ~long[c].redundant
    /\ Cardinality(DOMAIN long) = next_ref - 1
    /\ \E len \in 3 .. MaxLen :
          long' = add_clause_long(long, next_ref, new_input_clause(len))
    /\ next_ref' = next_ref + 1
    /\ rpc' = "idle"
    /\ UNCHANGED <<trail, assigned, binary, fault,
                   deletion_candidates, higher, load_vars, probe>>

\* a clause takes part in propagation or conflict analysis: its used
\* counter goes up and saturates
UseClause ==
    /\ Running
    /\ \E c \in DOMAIN long :
          /\ long[c].used < MaxUsed
          /\ long' = [long EXCEPT ![c].used = @ + 1]
    /\ rpc' = "idle"
    /\ UNCHANGED <<trail, assigned, binary, next_ref, fault,
                   deletion_candidates, higher, load_vars, probe>>

Push(step) ==
    /\ Running
    /\ is_unassigned(assigned, step.assigned_lit)
    /\ trail' = assign_trail(trail, step)
    /\ assigned' = assign_assigned(assigned, step)
    /\ fault' = assign_fault(assigned, fault, step)
    /\ rpc' = "idle"
    /\ UNCHANGED <<long, binary, next_ref, deletion_candidates,
                   higher, load_vars, probe>>

\* the literals the search assigns next: the positive literal of the lowest
\* unassigned variable (a fixed branching order and phase)
SearchLits ==
    {Lit_from_var(v, TRUE) : v \in {w \in Vars : /\ assigned[w] = "unassigned"
                                                 /\ \A u \in Vars : u < w => assigned[u] # "unassigned"}}

Decide == \E lit \in SearchLits : Push(Step(lit, current_level(trail) + 1, Decision))

AssignUnit ==
    /\ current_level(trail) = 0
    /\ \E lit \in SearchLits : Push(Step(lit, 0, Unit))

PropagateBinary ==
    \E lit \in SearchLits, other \in Lits :
        /\ is_false(assigned, other)
        /\ Push(Step(lit, current_level(trail), Binary(other)))

\* a long clause forces one literal at a time
PropagateLong ==
    \E lit \in SearchLits, c \in DOMAIN long \ LongReasons(trail) :
        Push(Step(lit, current_level(trail), Long(c)))

Backtrack ==
    /\ Running
    /\ \E level \in 0 .. (current_level(trail) - 1) :
          /\ trail' = backtrack_trail(trail, level)
          /\ assigned' = backtrack_assigned(assigned, trail, level)
    /\ rpc' = "idle"
    /\ UNCHANGED <<long, binary, next_ref, fault,
                   deletion_candidates, higher, load_vars, probe>>

Init ==
    /\ trail = <<>>
    /\ assigned = [v \in Vars |-> "unassigned"]
    /\ long = [c \in {} |-> new_input_clause(3)]
    /\ binary = 0
    /\ next_ref = 1
    /\ fault = "none"
    /\ rpc = "idle"
    /\ deletion_candidates = <<>>
    /\ higher = {}
    /\ pc = "search"
    /\ formula = <<>>
    /\ input = <<>>
    /\ units = <<>>
    /\ output = <<>>
    /\ calls = <<>>
    /\ probe = NoProbe

Next ==
    \/ AddLearned
    \/ AddInput
    \/ UseClause
    \/ Decide
    \/ AssignUnit
    \/ PropagateBinary
    \/ PropagateLong
    \/ Backtrack
    \/ reduce_scan
    \/ reduce_select
    \/ reduce_end

Spec == Init /\ [][Next]_vars

(***************************************************************************)
(* main() of starlit-cli (main.rs): the loader.                            *)
(***************************************************************************)
DimacsLits == {n \in (0 - NumVars) .. NumVars : n # 0}

\* the clauses a file may hold: up to MaxLen literals, in increasing order
\* The loader looks into unit clauses only; every other clause goes to
\* add_clause as it is.  A file holds any unit, and of each other length up
\* to MaxLen one clause: variables in turn, positive first, then negative.
LongerClause(n) ==
    [i \in 1 .. n |->
        IF ((i - 1) \div NumVars) % 2 = 0
        THEN ((i - 1) % NumVars) + 1
        ELSE 0 - (((i - 1) % NumVars) + 1)]

ClausePool ==
    {<<a>> : a \in DimacsLits} \cup {LongerClause(n) : n \in (0 .. MaxLen) \ {1}}

Formulas == UNION {[1 .. n -> ClausePool] : n \in 0 .. MaxInput}

\* the parser hands the clause over as literals
parse_clause(c) == [i \in 1 .. Len(c) |-> Lit_from_dimacs(c[i])]

\* `while let Some(clause) = input.next_clause()?`
in_read_loop(in) == in # <<>>

\* `if let [unit] = *clause`
is_unit_clause(clause) == Len(clause) = 1

\* variant of units_ready: units are visited while clauses are still read
units_ready_early(p) == TRUE

\* the unit loop starts when the reading loop has ended
units_ready(p) == p = "units"

\* variants of unit_branch: without the conflict test, without the skip
unit_branch_no_conflict(a, unit) == IF is_true(a, unit) THEN "skip" ELSE "assign"

unit_branch_no_skip(a, unit) == IF is_false(a, unit) THEN "unsat" ELSE "assign"

\* the branches of the unit loop: line 53, line 56, line 59
unit_branch(a, unit) ==
    IF is_false(a, unit) THEN "unsat"
    ELSE IF is_true(a, unit) THEN "skip"
    ELSE "assign"

Call(op, arg) == [op |-> op, arg |-> arg]

read_clause ==
    /\ pc = "read"
    /\ in_read_loop(input)
    /\ LET clause == parse_clause(Head(input))
           data == new_input_clause(Len(clause))
       IN  IF is_unit_clause(clause)
           THEN /\ units' = Append(units, clause[1])
                /\ UNCHANGED <<long, binary, next_ref, calls>>
           ELSE /\ long' = add_clause_long(long, next_ref, data)
                /\ binary' = add_clause_binary(binary, data)
                /\ next_ref' = add_clause_next_ref(next_ref, data)
                /\ calls' = Append(calls, Call("add_clause", Len(clause)))
                /\ UNCHANGED units
    /\ input' = Tail(input)
    /\ UNCHANGED <<trail, assigned, fault, reduce_vars, probe, pc, formula, output>>

read_end ==
    /\ pc = "read"
    /\ ~in_read_loop(input)
    /\ pc' = "units"
    /\ UNCHANGED <<trail, assigned, long, binary, next_ref, fault, reduce_vars, probe,
                   formula, input, units, output, calls>>

unit_step ==
    /\ pc \in {"read", "units"}
    /\ units_ready(pc)
    /\ units # <<>>
    /\ LET unit == Head(units)
           step == Step(unit, 0, Unit)
           branch == unit_branch(assigned, unit)
       IN  /\ output' = IF branch = "unsat" THEN Append(output, "false") ELSE output
           /\ pc' = IF branch = "unsat" THEN "exit" ELSE pc
           /\ trail' = IF branch = "assign" THEN assign_trail(trail, step) ELSE trail
           /\ assigned' = IF branch = "assign" THEN assign_assigned(assigned, step)
                          ELSE assigned
           /\ fault' = IF branch = "assign" THEN assign_fault(assigned, fault, step)
                       ELSE fault
           /\ calls' = IF branch = "assign" THEN Append(calls, Call("assign", unit))
                       ELSE calls
    /\ units' = Tail(units)
    /\ UNCHANGED <<long, binary, next_ref, reduce_vars, probe, formula, input>>

solve ==
    /\ pc = "units"
    /\ units = <<>>
    /\ calls' = Append(calls, Call("solve", 0))
    /\ pc' = "exit"
    /\ UNCHANGED <<trail, assigned, long, binary, next_ref, fault, reduce_vars, probe,
                   formula, input, units, output>>

LoadInit ==
    /\ trail = <<>>
    /\ assigned = [v \in Vars |-> "unassigned"]
    /\ long = [c \in {} |-> new_input_clause(3)]
    /\ binary = 0
    /\ next_ref = 1
    /\ fault = "none"
    /\ rpc = "idle"
    /\ deletion_candidates = <<>>
    /\ higher = {}
    /\ pc = "read"
    /\ formula \in Formulas
    /\ input = formula
    /\ units = <<>>
    /\ output = <<>>
    /\ calls = <<>>
    /\ probe = NoProbe

LoadNext ==
    \/ read_clause
    \/ read_end
    \/ unit_step
    \/ solve

LoadSpec == LoadInit /\ [][LoadNext]_vars

\* main() is sequential code: a step that can be taken is taken
LoadFairSpec == LoadSpec /\ WF_vars(LoadNext)

(***************************************************************************)
(* Properties of reduce(), checked under Spec.                             *)
(***************************************************************************)
Deleted == {e.clause : e \in higher}

\* C1: every Reason::Long handle of a step on the trail refers to a live
\* clause, in every state: reduce() never deletes a clause that is the
\* reason of a step on the trail.
C1_ReasonsLive == \A c \in LongReasons(trail) : c \in DOMAIN long

\* a reduction has deleted clauses while a redundant, unused clause of the
\* highest glue tier is the reason of a step on the trail
C1_Witness ==
    /\ rpc = "unprotect"
    /\ higher # {}
    /\ \E c \in LongReasons(trail) :
          /\ c \in DOMAIN long
          /\ long[c].redundant
          /\ long[c].glue > MEDIUM_GLUE
          /\ long[c].used = 0

\* C2: no step deletes a long clause whose glue is at most 2.
C2_CoreKept == [][\A c \in DOMAIN long : long[c].glue <= 2 => c \in DOMAIN long']_vars

\* a reduction has deleted clauses and left a redundant, unused, unprotected
\* clause of glue 2 in the database
C2_Witness ==
    /\ rpc = "unprotect"
    /\ higher # {}
    /\ \E c \in DOMAIN long :
          /\ long[c].glue <= 2
          /\ long[c].redundant
          /\ ~long[c].protected
          /\ long[c].used = 0

\* C3: every clause a step deletes has its redundant flag set.
C3_InputKept == [][\A c \in DOMAIN long \ DOMAIN long' : long[c].redundant]_vars

\* a reduction has deleted clauses and left an unprotected input clause in
\* the database
C3_Witness ==
    /\ rpc = "unprotect"
    /\ higher # {}
    /\ \E c \in DOMAIN long : ~long[c].redundant /\ ~long[c].protected

\* C4: when the scan has collected n candidates, the number of clauses
\* deleted is n/2 for even n, and (n-1)/2 or (n+1)/2 for odd n.
C4_ExactHalf ==
    rpc = "unprotect" =>
        LET n == Len(deletion_candidates)
            d == Cardinality(higher)
        IN  IF n % 2 = 0 THEN d = n \div 2 ELSE d \in {(n - 1) \div 2, (n + 1) \div 2}

\* C5: every deleted candidate has a score greater than or equal to the
\* score of every candidate that is kept.
C5_WorseDeleted ==
    rpc = "unprotect" =>
        \A d \in higher, k \in CandidateSet \ higher : ~score_less(d.score, k.score)

\* a reduction has deleted a candidate whose score is strictly above the
\* score of a candidate it kept
C5_Witness ==
    /\ rpc = "unprotect"
    /\ \E d \in higher, k \in CandidateSet \ higher : score_less(k.score, d.score)
    /\ Deleted \cap DOMAIN long = {}

\* C6, as stated: in every state, a live clause that is the Reason::Long of
\* a step on the trail has its protected flag set.
C6_AlwaysProtected ==
    \A c \in LongReasons(trail) : c \in DOMAIN long => long[c].protected

\* C6, amended: while a reduction is between protect_clauses(true) and
\* protect_clauses(false), every clause that is the Reason::Long of a step on
\* the trail is live and has its protected flag set.
C6_ProtectedWhileReducing ==
    rpc \in {"select", "unprotect"} =>
        \A c \in LongReasons(trail) : c \in DOMAIN long /\ long[c].protected

\* a reduction has scanned the database and collected candidates while a
\* step on the trail has a long clause as its reason
C6_Witness ==
    /\ rpc = "select"
    /\ LongReasons(trail) # {}
    /\ deletion_candidates # <<>>

\* C7: outside of a reduction no live clause has its protected flag set, and
\* the clauses whose flag protect_clauses(false) clears are none of those the
\* reduction deleted.
C7_Unprotected ==
    /\ Running => \A c \in DOMAIN long : ~long[c].protected
    /\ rpc = "unprotect" => LongReasons(trail) \cap Deleted = {}
    /\ fault # "stale_handle"

\* a reduction has returned with a Reason::Long on the trail, and clauses
\* have been deleted
C7_Witness ==
    /\ rpc = "returned"
    /\ LongReasons(trail) # {}
    /\ Cardinality(DOMAIN long) < next_ref - 1

(***************************************************************************)
(* Properties of the loader, checked under LoadSpec and LoadFairSpec.      *)
(***************************************************************************)
HasOppositeUnits ==
    \E i, j \in 1 .. Len(formula) :
        /\ Len(formula[i]) = 1
        /\ Len(formula[j]) = 1
        /\ formula[i][1] = 0 - formula[j][1]

Called(op) == \E i \in 1 .. Len(calls) : calls[i].op = op

\* C8: when the formula holds two unit clauses with opposite literals, the
\* loader ends having printed false, and solve() is never called.
C8_OppositeUnitsUnsat ==
    /\ HasOppositeUnits => <>(pc = "exit" /\ output = <<"false">>)
    /\ [](HasOppositeUnits => ~Called("solve"))

\* the loader has ended on a formula of opposite units that also holds
\* clauses it added to the database
C8_Witness ==
    /\ pc = "exit"
    /\ HasOppositeUnits
    /\ Called("add_clause")
    /\ output = <<"false">>

\* C9, as stated: no add_clause call precedes a trail assignment of a unit.
C9_UnitsBeforeClauses ==
    \A i, j \in 1 .. Len(calls) :
        (calls[i].op = "add_clause" /\ calls[j].op = "assign") => j < i

\* C9, amended: no trail assignment of a unit precedes an add_clause call;
\* the clauses that are not units are added first.
C9_ClausesBeforeUnits ==
    \A i, j \in 1 .. Len(calls) :
        (calls[i].op = "assign" /\ calls[j].op = "add_clause") => j < i

\* the loader has ended on a formula that starts with a unit and holds a
\* longer clause after it, having assigned and added
C9_Witness ==
    /\ pc = "exit"
    /\ Len(formula) >= 2
    /\ Len(formula[1]) = 1
    /\ Called("assign")
    /\ Called("add_clause")

\* C10: the loader never assigns a literal whose variable is assigned; every
\* step on the trail has decision level 0 and reason Unit, no two steps are
\* of one variable, and every assign call left one step.
C10_UnitAssignments ==
    /\ fault # "assign_assigned"
    /\ \A i \in 1 .. Len(trail) :
          /\ trail[i].decision_level = 0
          /\ trail[i].reason = Unit
    /\ \A i, j \in 1 .. Len(trail) :
          i < j => Lit_var(trail[i].assigned_lit) # Lit_var(trail[j].assigned_lit)
    /\ Cardinality({i \in 1 .. Len(calls) : calls[i].op = "assign"}) = Len(trail)

\* the loader has gone through a formula that repeats a unit and has called
\* solve() with that unit on the trail once
C10_Witness ==
    /\ pc = "exit"
    /\ Called("solve")
    /\ \E i, j \in 1 .. Len(formula) :
          /\ i < j
          /\ Len(formula[i]) = 1
          /\ formula[i] = formula[j]
    /\ Len(trail) >= 1

(***************************************************************************)
(* The functions of lit.rs, called on arguments at the edges of their      *)
(* ranges: next to zero and next to the largest index, number and code.    *)
(***************************************************************************)
LitEdge == 4

IndexInputs == (0 .. LitEdge) \cup ((MAX_INDEX - LitEdge) .. (MAX_INDEX + LitEdge))

DimacsInputs ==
    LET pos == (0 .. LitEdge) \cup ((MAX_DIMACS - LitEdge) .. (MAX_DIMACS + LitEdge))
    IN  pos \cup {-n : n \in pos}

CodeInputs ==
    {usize(0, c) : c \in 0 .. LitEdge}
        \cup {usize(0, (2 * MAX_INDEX + 1) - c) : c \in 0 .. LitEdge}
        \cup {usize(1, c) : c \in 0 .. LitEdge}

VarCtors == {"Var::from_index", "Var::from_dimacs"}

LitCtors == {"Lit::from_var", "Lit::from_index", "Lit::from_code", "Lit::from_dimacs"}

\* the last call built a value, or was a method call on a built value
holds(ctors) ==
    \/ probe.fn \in ctors /\ probe.result # PANIC
    \/ probe.built # <<>> /\ probe.built[1] \in ctors

held == IF probe.built = <<>> THEN probe.result ELSE probe.args[1]

held_built == IF probe.built = <<>> THEN <<probe.fn, probe.args>> ELSE probe.built

lit_frame == UNCHANGED <<solver_vars, reduce_vars, load_vars>>

construct(fn, args, result) ==
    /\ probe' = Probe(fn, args, result, <<>>)
    /\ lit_frame

method(ctors, fn, result) ==
    /\ holds(ctors)
    /\ probe' = Probe(fn, <<held>>, result, held_built)
    /\ lit_frame

call_Var_from_index ==
    \E index \in IndexInputs : construct("Var::from_index", <<index>>, Var_from_index(index))

call_Var_from_dimacs ==
    \E number \in DimacsInputs :
        construct("Var::from_dimacs", <<number>>, Var_from_dimacs(number))

call_Var_index == method(VarCtors, "Var::index", Var_index(held))

call_Var_dimacs == method(VarCtors, "Var::dimacs", Var_dimacs(held))

call_Lit_from_var ==
    /\ holds(VarCtors)
    /\ \E positive \in BOOLEAN :
           construct("Lit::from_var", <<held, positive>>, Lit_from_var(held, positive))

call_Lit_from_index ==
    \E index \in IndexInputs, positive \in BOOLEAN :
        construct("Lit::from_index", <<index, positive>>, Lit_from_index(index, positive))

call_Lit_from_code ==
    \E code \in CodeInputs : construct("Lit::from_code", <<code>>, Lit_from_code(code))

call_Lit_from_dimacs ==
    \E number \in DimacsInputs :
        construct("Lit::from_dimacs", <<number>>, Lit_from_dimacs(number))

call_Lit_code == method(LitCtors, "Lit::code", Lit_code(held))

call_Lit_var == method(LitCtors, "Lit::var", Lit_var(held))

call_Lit_index == method(LitCtors, "Lit::index", Lit_index(held))

call_Lit_is_positive == method(LitCtors, "Lit::is_positive", Lit_is_positive(held))

call_Lit_is_negative == method(LitCtors, "Lit::is_negative", Lit_is_negative(held))

call_Lit_dimacs == method(LitCtors, "Lit::dimacs", Lit_dimacs(held))

LitInit ==
    /\ trail = <<>>
    /\ assigned = [v \in Vars |-> "unassigned"]
    /\ long = [c \in {} |-> new_input_clause(3)]
    /\ binary = 0
    /\ next_ref = 1
    /\ fault = "none"
    /\ rpc = "idle"
    /\ deletion_candidates = <<>>
    /\ higher = {}
    /\ pc = "lit"
    /\ formula = <<>>
    /\ input = <<>>
    /\ units = <<>>
    /\ output = <<>>
    /\ calls = <<>>
    /\ probe = NoProbe

LitNext ==
    \/ call_Var_from_index
    \/ call_Var_from_dimacs
    \/ call_Var_index
    \/ call_Var_dimacs
    \/ call_Lit_from_var
    \/ call_Lit_from_index
    \/ call_Lit_from_code
    \/ call_Lit_from_dimacs
    \/ call_Lit_code
    \/ call_Lit_var
    \/ call_Lit_index
    \/ call_Lit_is_positive
    \/ call_Lit_is_negative
    \/ call_Lit_dimacs

LitSpec == LitInit /\ [][LitNext]_vars

\* the last call was the method fn on a value built by the constructor ctor
Observed(ctor, fn) ==
    /\ probe.fn = fn
    /\ probe.built # <<>>
    /\ probe.built[1] = ctor

\* C11: for every DIMACS number n with 0 < |n| <= MAX_DIMACS,
\* Lit::from_dimacs(n).dimacs() is n again, and neither the code of the
\* literal nor the index + 1 that Var::dimacs computes leaves the u32 range
\* (both stay at or below 2 * MAX_INDEX + 1), also at n = +-MAX_DIMACS.
C11_RoundTrip ==
    /\ \A n \in DimacsInputs :
           (0 < Abs(n) /\ Abs(n) <= MAX_DIMACS) =>
               /\ Lit_from_dimacs(n) # PANIC
               /\ Lit_from_dimacs(n) <= 2 * MAX_INDEX + 1
    /\ Observed("Lit::from_dimacs", "Lit::dimacs") =>
           /\ probe.result = probe.built[2][1]
           /\ Var_dimacs(Lit_var(probe.args[1])) <= MAX_DIMACS

C11_Witness ==
    /\ Observed("Lit::from_dimacs", "Lit::dimacs")
    /\ probe.built[2][1] = -MAX_DIMACS
    /\ probe.result = -MAX_DIMACS

\* C12: for every variable v with index <= MAX_INDEX and every polarity p, the
\* literal l = Lit::from_var(v, p) has the code 2 * index + (1 if p else 0),
\* which is at most 2 * MAX_INDEX + 1; l.var() is v, l.is_positive() is p and
\* l.index() is the code shifted right by one.
C12_FromVar ==
    /\ probe.fn = "Lit::from_var" =>
           /\ probe.args[1] <= MAX_INDEX
           /\ probe.result = 2 * probe.args[1] + (IF probe.args[2] THEN 1 ELSE 0)
           /\ probe.result >= 0
           /\ probe.result <= 2 * MAX_INDEX + 1
    /\ Observed("Lit::from_var", "Lit::code") =>
           probe.result = 2 * probe.built[2][1] + (IF probe.built[2][2] THEN 1 ELSE 0)
    /\ Observed("Lit::from_var", "Lit::var") => probe.result = probe.built[2][1]
    /\ Observed("Lit::from_var", "Lit::is_positive") => probe.result = probe.built[2][2]
    /\ Observed("Lit::from_var", "Lit::index") =>
           /\ probe.result = Lit_code(probe.args[1]) \div 2
           /\ probe.result = probe.built[2][1]

C12_Witness ==
    /\ Observed("Lit::from_var", "Lit::var")
    /\ probe.built[2] = <<MAX_INDEX, TRUE>>
    /\ probe.args[1] = 2 * MAX_INDEX + 1
    /\ probe.result = MAX_INDEX

\* C13: the checked constructors panic exactly on the inputs out of range:
\* Lit::from_dimacs(n) exactly when n = 0 or |n| > MAX_DIMACS, Var::from_index(i)
\* exactly when i > MAX_INDEX, Lit::from_code(c) exactly when
\* c > 2 * MAX_INDEX + 1; and no Var or Lit a checked constructor returned has
\* a variable index above MAX_INDEX.
C13_CheckedConstructors ==
    /\ probe.fn = "Lit::from_dimacs" =>
           ((probe.result = PANIC) <=>
               (probe.args[1] = 0 \/ Abs(probe.args[1]) > MAX_DIMACS))
    /\ probe.fn = "Var::from_index" =>
           ((probe.result = PANIC) <=> (probe.args[1] > MAX_INDEX))
    /\ probe.fn = "Lit::from_code" =>
           ((probe.result = PANIC) <=>
               ~(probe.args[1].high = 0 /\ probe.args[1].low <= 2 * MAX_INDEX + 1))
    /\ (probe.fn \in VarCtors /\ probe.result # PANIC) =>
           (0 <= Var_index(probe.result) /\ Var_index(probe.result) <= MAX_INDEX)
    /\ (probe.fn \in LitCtors /\ probe.result # PANIC) =>
           (0 <= Lit_index(probe.result) /\ Lit_index(probe.result) <= MAX_INDEX)

C13_Witness ==
    /\ probe.fn = "Lit::from_dimacs"
    /\ probe.args[1] = -(MAX_DIMACS + 1)
    /\ probe.result = PANIC

(***************************************************************************)
(* Consecutive reductions: reduce() is called again and again on a         *)
(* database and a trail that nothing else touches in between.  The first   *)
(* clause is any long clause, with any value of its used counter; the      *)
(* others are learned clauses that have not been used.                     *)
(***************************************************************************)
ReduceUsed == 2

\* the data of a long clause whose used counter has been raised to used
used_clause(data, used) == [data EXCEPT !.used = used]

SubjectData ==
    {used_clause(new_learned_clause(len, glue), used) :
        len \in 3 .. MaxLen, glue \in GlueValues, used \in 0 .. ReduceUsed}
    \cup {used_clause(new_input_clause(len), used) :
              len \in 3 .. MaxLen, used \in 0 .. ReduceUsed}

FillerData == {new_learned_clause(3, glue) : glue \in GlueValues}

\* the databases of n clauses, handles 1 .. n
Databases(n) ==
    {l \in [1 .. n -> SubjectData \cup FillerData] :
        /\ l[1] \in SubjectData
        /\ \A c \in 2 .. n : l[c] \in FillerData}

\* the trails: empty, or one step that the first or the last clause propagated
ReduceTrails(n) ==
    {<<>>} \cup {<<Step(Lit_from_var(0, TRUE), 0, Long(c))>> : c \in {1, n}}

RECURSIVE assign_all(_, _)
assign_all(a, t) ==
    IF t = <<>> THEN a ELSE assign_all(assign_assigned(a, Head(t)), Tail(t))

ReduceInit ==
    /\ \E n \in 1 .. MaxClauses :
          /\ long \in Databases(n)
          /\ next_ref = n + 1
          /\ trail \in ReduceTrails(n)
    /\ assigned = assign_all([v \in Vars |-> "unassigned"], trail)
    /\ binary = 0
    /\ fault = "none"
    /\ rpc = "idle"
    /\ deletion_candidates = <<>>
    /\ higher = {}
    /\ pc = "reduce"
    /\ formula = <<>>
    /\ input = <<>>
    /\ units = <<>>
    /\ output = <<>>
    /\ calls = <<>>
    /\ probe = NoProbe

ReduceNext ==
    \/ reduce_scan
    \/ reduce_select
    \/ reduce_end

ReduceSpec == ReduceInit /\ [][ReduceNext]_vars

CandidateClauses == {e.clause : e \in CandidateSet}

\* a clause of the medium tier that was used since the last reduction and
\* that reduce() finds unprotected
MediumUsed(c) ==
    /\ long[c].redundant
    /\ c \notin LongReasons(trail)
    /\ long[c].glue > CORE_GLUE
    /\ long[c].glue <= MEDIUM_GLUE
    /\ long[c].used > 0

\* C14: a redundant, unprotected long clause with glue between 3 and 5 whose
\* used counter is positive when reduce() scans it leaves the scan live, with
\* its counter exactly one lower and without being a deletion candidate, and
\* the rest of reduce() deletes nothing but candidates; hence a clause with
\* used = k outlives k consecutive reductions.
C14_MediumKept ==
    [][/\ rpc' = "select" =>
              \A c \in DOMAIN long :
                  MediumUsed(c) =>
                      /\ c \in DOMAIN long'
                      /\ long'[c].used = long[c].used - 1
                      /\ c \notin {deletion_candidates'[i].clause :
                                       i \in 1 .. Len(deletion_candidates')}
       /\ rpc \in {"select", "unprotect"} =>
              \A c \in DOMAIN long \ CandidateClauses : c \in DOMAIN long'
      ]_vars

\* a reduction has deleted clauses and kept, outside of its candidates, an
\* unprotected clause of the medium tier whose counter is one below the
\* highest value, which is still positive
C14_Witness ==
    /\ rpc = "unprotect"
    /\ higher # {}
    /\ \E c \in DOMAIN long \ CandidateClauses :
          /\ long[c].redundant
          /\ ~long[c].protected
          /\ long[c].glue > CORE_GLUE
          /\ long[c].glue <= MEDIUM_GLUE
          /\ long[c].used = ReduceUsed - 1
          /\ long[c].used > 0

\* C16: the scan of reduce() leaves the used counter of every redundant,
\* unprotected long clause with glue > 2 at max(old - 1, 0), never below zero,
\* in each of any number of consecutive reductions.
C16_SaturatingDecrement ==
    [][rpc' = "select" =>
          \A c \in DOMAIN long :
              (long[c].redundant /\ c \notin LongReasons(trail) /\ long[c].glue > CORE_GLUE) =>
                  /\ c \in DOMAIN long'
                  /\ long'[c].used = (IF long[c].used - 1 > 0 THEN long[c].used - 1 ELSE 0)
                  /\ long'[c].used >= 0
      ]_vars

\* a scan has collected an unprotected clause of the highest tier whose
\* counter stands one below the highest value, next to a candidate whose
\* counter stands at zero
C16_Witness ==
    /\ rpc = "select"
    /\ \E c, d \in CandidateClauses :
          /\ long[c].redundant /\ ~long[c].protected
          /\ long[c].glue > MEDIUM_GLUE
          /\ long[c].used = ReduceUsed - 1
          /\ long[d].redundant /\ ~long[d].protected
          /\ long[d].used = 0

(***************************************************************************)
(* The score of a deletion candidate, computed and compared for clauses    *)
(* at the edges of the fields: glue next to the tier boundaries and to the *)
(* top of its six bits, lengths next to 3 and to the clamp of 24 bits.     *)
(***************************************************************************)
ScoreEdge == 1

ScoreGlues ==
    ((CORE_GLUE + 1) .. (CORE_GLUE + ScoreEdge))
        \cup (MEDIUM_GLUE .. (MEDIUM_GLUE + ScoreEdge))
        \cup ((GLUE_FIELD_SIZE - 1 - ScoreEdge) .. (GLUE_FIELD_SIZE - 1))

ScoreLens ==
    (3 .. (3 + ScoreEdge)) \cup ((LEN_BITS_MAX - ScoreEdge) .. (LEN_BITS_MAX + ScoreEdge))

\* the clauses the scan pushes on deletion_candidates, as it finds them
ScoreInputs ==
    {data \in {used_clause(new_learned_clause(len, glue), used) :
                  len \in ScoreLens, glue \in ScoreGlues, used \in 0 .. USED_MAX} :
        scan_pushes(data)}

\* Ord::cmp on two scores
score_cmp(a, b) ==
    IF score_less(a, b) THEN "Less" ELSE IF score_less(b, a) THEN "Greater" ELSE "Equal"

\* reduce(), lines 56-66: the counter is decremented, then the score is set
call_make_score ==
    /\ \E data \in ScoreInputs :
          probe' = Probe("Score", <<scan_data(data)>>, make_score(scan_data(data)), <<>>)
    /\ lit_frame

\* select_nth_unstable compares the scores of two candidates
call_score_cmp ==
    /\ probe.fn = "Score"
    /\ \E data \in ScoreInputs :
          probe' = Probe("Score::cmp", <<probe.args[1], scan_data(data)>>,
                         score_cmp(probe.result, make_score(scan_data(data))), <<>>)
    /\ lit_frame

ScoreInit ==
    /\ trail = <<>>
    /\ assigned = [v \in Vars |-> "unassigned"]
    /\ long = [c \in {} |-> new_input_clause(3)]
    /\ binary = 0
    /\ next_ref = 1
    /\ fault = "none"
    /\ rpc = "idle"
    /\ deletion_candidates = <<>>
    /\ higher = {}
    /\ pc = "score"
    /\ formula = <<>>
    /\ input = <<>>
    /\ units = <<>>
    /\ output = <<>>
    /\ calls = <<>>
    /\ probe = NoProbe

ScoreNext ==
    \/ call_make_score
    \/ call_score_cmp

ScoreSpec == ScoreInit /\ [][ScoreNext]_vars

ClampedLen(data) == IF data.len > LEN_BITS_MAX THEN LEN_BITS_MAX ELSE data.len

\* C15: of two candidates whose glue fits six bits, the one with the lower
\* used counter (after the decrement) has the higher score; on equal used the
\* one with the higher glue; on equal used and glue the one with the greater
\* length clamped to 2^24 - 1; and the fields of a score stay inside their
\* bits, so that none runs into a more significant one.
C15_ScoreOrder ==
    /\ probe.fn = "Score" =>
           /\ probe.result.inv_used \in 0 .. (INV_USED_FIELD_SIZE - 1)
           /\ probe.result.glue = probe.args[1].glue
           /\ probe.result.glue \in 0 .. (GLUE_FIELD_SIZE - 1)
           /\ probe.result.len = ClampedLen(probe.args[1])
           /\ score_bits(probe.result) =
                  <<probe.result.inv_used * GLUE_FIELD_SIZE + probe.result.glue,
                    probe.result.len>>
    /\ probe.fn = "Score::cmp" =>
           LET a == probe.args[1]
               b == probe.args[2]
           IN  /\ a.used < b.used => probe.result = "Greater"
               /\ (a.used = b.used /\ a.glue > b.glue) => probe.result = "Greater"
               /\ (a.used = b.used /\ a.glue = b.glue /\ ClampedLen(a) > ClampedLen(b)) =>
                      probe.result = "Greater"
               /\ (a.used = b.used /\ a.glue = b.glue /\ ClampedLen(a) = ClampedLen(b)) =>
                      probe.result = "Equal"

\* a candidate with the lower counter was compared to one with a higher
\* counter, a higher glue and a length above the clamp, and came out higher
C15_Witness ==
    /\ probe.fn = "Score::cmp"
    /\ probe.args[1].used < probe.args[2].used
    /\ probe.args[1].glue < probe.args[2].glue
    /\ probe.args[1].len < LEN_BITS_MAX
    /\ probe.args[2].len > LEN_BITS_MAX
    /\ probe.result = "Greater"

\* C17: every clause the loader passes to add_clause has at least two
\* literals and is stored as an input clause, with its redundant flag clear;
\* no clause of another length reaches the clause database.
C17_OnlyLongerAdded ==
    /\ \A i \in 1 .. Len(calls) : calls[i].op = "add_clause" => calls[i].arg >= 2
    /\ \A c \in DOMAIN long : ~long[c].redundant /\ long[c].len >= 2

\* C18: reduce() never hands a clause whose protected flag is set to
\* delete_clause: no candidate the scan collected is protected or dead, and
\* the contract violation of delete_clause is never raised.
C18_NoProtectedDeleted ==
    /\ fault # "delete_protected"
    /\ rpc = "select" =>
           \A e \in CandidateSet : e.clause \in DOMAIN long /\ ~long[e.clause].protected

\* a reduction has deleted clauses while a protected, redundant clause above
\* the core tier, used or not, stayed in the database, and no contract was
\* violated
C18_Witness ==
    /\ rpc = "unprotect"
    /\ higher # {}
    /\ fault = "none"
    /\ \E c \in DOMAIN long :
          /\ long[c].protected
          /\ long[c].redundant
          /\ long[c].glue > CORE_GLUE
          /\ c \notin CandidateClauses

\* C19: a step of reduce() leaves the trail and the assignment as they are,
\* adds no clause, changes the glue, the length and the redundant flag of no
\* clause, and leaves the used counter of every clause that is the reason of
\* a step on the trail, is not redundant, or has glue <= 2 as it is.
C19_Frame ==
    [][rpc' \in {"select", "unprotect", "returned"} =>
          /\ trail' = trail
          /\ assigned' = assigned
          /\ binary' = binary
          /\ next_ref' = next_ref
          /\ DOMAIN long' \subseteq DOMAIN long
          /\ \A c \in DOMAIN long' :
                /\ long'[c].glue = long[c].glue
                /\ long'[c].len = long[c].len
                /\ long'[c].redundant = long[c].redundant
                /\ (c \in LongReasons(trail) \/ ~long[c].redundant \/ long[c].glue <= CORE_GLUE) =>
                       long'[c].used = long[c].used
      ]_vars

\* a reduction has returned, after deletions, on a trail of two steps or
\* more, with a used reason clause, a used input clause and a used core
\* clause in the database
C19_Witness ==
    /\ rpc = "returned"
    /\ Len(trail) >= 2
    /\ Cardinality(DOMAIN long) < next_ref - 1
    /\ \E c \in LongReasons(trail) : c \in DOMAIN long /\ long[c].used > 0
    /\ \E c \in DOMAIN long :
          long[c].used > 0 /\ (~long[c].redundant \/ long[c].glue <= CORE_GLUE)

====
